---- MODULE Spec2Model ----
(***************************************************************************)
(* pydock (src/src/pydock.py, version 0.0.6): the environment lifecycle    *)
(* (create / build / delete / run) and the image mutation transaction      *)
(* (install / update / uninstall).                                         *)
(*                                                                         *)
(* One tool invocation is a process p: main() dispatches one command and   *)
(* the command runs to its return.  A command is cut into steps at every   *)
(* filesystem test and every call of docker(), because these are the       *)
(* points where another invocation, or a failure of the engine, can be     *)
(* observed.  Every docker() call draws its exit code nondeterministically *)
(* (0 or non-zero), restricted by what the engine can do in its state.     *)
(*                                                                         *)
(* Spec      one invocation at a time (the tool is single-threaded and     *)
(*           synchronous).                                                 *)
(* SpecConc  two invocations whose steps interleave, started on a store    *)
(*           of Absent and freshly created environments.                   *)
(* SpecKill  as Spec, and the process may be terminated in a transaction.  *)
(* SpecDocker  the engine client docker() alone, over all its inputs.      *)
(***************************************************************************)
EXTENDS Integers, Sequences, FiniteSets, TLC

\* ---------------------------------------------------------------- bounds
NumEnvs == 1
NumPkgs == 1
NumVersions == 2
MaxOps == 4
MaxExitCode == 3

Envs == 1..NumEnvs
Pkgs == 1..NumPkgs
Versions == 1..NumVersions
Procs == {1, 2}
ExitCodes == 0..MaxExitCode

VARIABLES
    envDirs,       \* names e for which pydock_path / e exists
    dockerfile,    \* dockerfile[e]: the version rendered into env_dir/dockerfile
    requirements,  \* requirements[e]: package set in env_dir/requirements.txt
    tag,           \* tag[e]: content id behind pydock-<e>:latest, 0 = no such tag
    images,        \* images[id]: package set of the image with content id id
    container,     \* container[e]: the container named pydock-<e>-tmp
    proc,          \* proc[p]: position, locals, output and history of invocation p
                   \*   (before: the state at dispatch; overlap, peers: which and
                   \*   how many other commands ran during this one; collided:
                   \*   the container name was taken when docker run was issued;
                   \*   killed: the process was terminated before its command
                   \*   returned; rerun: 1 when this command repeats the killed
                   \*   command before it, 2 when it repeats that repetition)
    nops           \* number of commands dispatched so far

vars == <<envDirs, dockerfile, requirements, tag, images, container, proc, nops>>

NoImage == 0
NoContainer == [exists |-> FALSE, pkgs |-> {}, owner |-> 0]

CommandNames == {"create", "build", "delete", "run", "install", "update", "uninstall"}
Mutations == {"install", "update", "uninstall"}

\* ------------------------------------------------------------ pure parts

\* docker(): "if throw and result.returncode != 0: raise"
Throws_always(throw, rc) == rc # 0
Throws(throw, rc) == throw /\ rc # 0

\* docker(): command.insert(0, "docker"); if sudo: command.insert(0, "sudo")
Argv(sudo, command) ==
    IF sudo THEN <<"sudo", "docker">> \o command ELSE <<"docker">> \o command

\* the engine subcommands the tool issues
Subcommands == {"images", "build", "rmi", "run", "commit", "tag", "rm"}

\* one call docker(*command, config, throw) whose process exits with rc:
\* the command line run, whether the call raised, and the returncode of the
\* result it returned (-1: nothing returned)
Docker(command, sudo, throw, rc) ==
    [command |-> command, sudo |-> sudo, throw |-> throw, rc |-> rc,
     argv |-> Argv(sudo, command),
     raised |-> Throws(throw, rc),
     result |-> IF Throws(throw, rc) THEN -1 ELSE rc]

NoCall ==
    [command |-> <<>>, sudo |-> FALSE, throw |-> FALSE, rc |-> 0,
     argv |-> <<>>, raised |-> FALSE, result |-> 0]

\* the throw argument of each docker() call site (default is True)
BuildThrow == TRUE
DeleteRmiThrow_default == TRUE
DeleteRmiThrow == FALSE
RunThrow == FALSE
MutRunThrow == TRUE
CommitThrow_off == FALSE
CommitThrow == TRUE
MutRmiThrow == TRUE
MutTagThrow == TRUE
MutRmThrow_default == TRUE
MutRmThrow == FALSE

\* the in-container command: pip install / pip install -U / pip uninstall -y,
\* applied to the package set of the image the container was started from
PipCommand_noop(op, pkgs, package) == pkgs
PipCommand(op, pkgs, package) ==
    IF op = "uninstall" THEN pkgs \ {package} ELSE pkgs \cup {package}

\* stdout of "docker commit" is "<algorithm>:<hexid>"; the code keeps split(":")[1]
CommitStdout(id) == <<"sha256", id>>
ParseImageId(stdout) == stdout[2]

\* the message printed by the except: branch of each transaction
FailedMessage(op) ==
    CASE op = "install" -> "Install command failed!"
      [] op = "update" -> "Update command failed!"
      [] op = "uninstall" -> "Delete command failed!"

\* create(): "if not build(config, name): delete(config, name)";
\* build returns True, False, or None (when the directory is missing)
AfterBuild_norollback(caller, ret) == "idle"
AfterBuild(caller, ret) ==
    IF caller = "create" /\ ret # "True" THEN "delete_check" ELSE "idle"

\* first step of each command
FirstPc(op) ==
    CASE op = "create" -> "create_mkdir"
      [] op = "build" -> "build_check"
      [] op = "delete" -> "delete_check"
      [] op = "run" -> "run_check"
      [] op \in Mutations -> "mut_check"

\* ----------------------------------------------------------------- state

Snapshot(e) ==
    [dir |-> e \in envDirs, dockerfile |-> dockerfile[e],
     requirements |-> requirements[e], tag |-> tag[e],
     container |-> container[e].exists]

IdleProc ==
    [pc |-> "idle", op |-> "none", env |-> 0, arg |-> 0, ret |-> "None",
     new_image_id |-> 0, log |-> <<>>, out |-> <<>>, raised |-> FALSE,
     mkdir |-> "none", collided |-> FALSE, killed |-> FALSE,
     rerun |-> 0, call |-> NoCall, before |-> [dir |-> FALSE, dockerfile |-> 0,
     requirements |-> {}, tag |-> 0, container |-> FALSE], overlap |-> {},
     peers |-> 0]

Init ==
    /\ envDirs = {}
    /\ dockerfile = [e \in Envs |-> 0]
    /\ requirements = [e \in Envs |-> {}]
    /\ tag = [e \in Envs |-> NoImage]
    /\ images = <<>>
    /\ container = [e \in Envs |-> NoContainer]
    /\ proc = [p \in Procs |-> IdleProc]
    /\ nops = 0

\* the state left by successful create(e, 1) calls for the names in built,
\* issued in increasing order of name, every other name being Absent
AfterCreates(built) ==
    /\ envDirs = built
    /\ dockerfile = [e \in Envs |-> IF e \in built THEN 1 ELSE 0]
    /\ requirements = [e \in Envs |-> {}]
    /\ tag = [e \in Envs |-> IF e \in built
                              THEN Cardinality({x \in built : x <= e})
                              ELSE NoImage]
    /\ images = [i \in 1..Cardinality(built) |-> {}]
    /\ container = [e \in Envs |-> NoContainer]

\* two invocations are started on a store in which every environment is
\* either Absent or freshly created
InitConc ==
    /\ \E built \in SUBSET Envs : AfterCreates(built)
    /\ proc = [p \in Procs |-> IdleProc]
    /\ nops = 0

Running(p) == proc[p].pc # "idle"
Returned(p) == proc[p].pc = "idle" /\ proc[p].op # "none" /\ ~proc[p].killed

Call(cmd, rc) == [cmd |-> cmd, rc |-> rc]

\* proc with p's record replaced
Upd(p, r) == [proc EXCEPT ![p] = r]

\* -------------------------------------------------------------- dispatch

\* the user repeats the command line of the previous invocation
Rerun(prev, op, e, arg) ==
    IF prev.op = op /\ prev.env = e /\ prev.arg = arg
    THEN IF prev.killed THEN 1 ELSE IF prev.rerun = 1 THEN 2 ELSE 0
    ELSE 0

\* main(): command = COMMANDS[args.pop(0)]; command(config, *args)
Start(p, op, e, arg) ==
    /\ ~Running(p)
    /\ nops < MaxOps
    /\ nops' = nops + 1
    /\ LET others == {q \in Procs \ {p} : Running(q)}
       IN proc' = [q \in Procs |->
            IF q = p
            THEN [IdleProc EXCEPT !.pc = FirstPc(op), !.op = op, !.env = e,
                                  !.arg = arg, !.before = Snapshot(e),
                                  !.rerun = Rerun(proc[p], op, e, arg),
                                  !.overlap = others,
                                  !.peers = Cardinality(others)]
            ELSE IF q \in others
                 THEN [proc[q] EXCEPT !.overlap = @ \cup {p}, !.peers = @ + 1]
                 ELSE proc[q]]
    /\ UNCHANGED <<envDirs, dockerfile, requirements, tag, images, container>>

\* ---------------------------------------------------------------- create

\* env_dir.mkdir() and the two file writes that follow a successful mkdir
CreateMkdir_exist_ok(p) ==
    LET r == proc[p] e == r.env IN
    /\ r.pc = "create_mkdir"
    /\ envDirs' = envDirs \cup {e}
    /\ dockerfile' = [dockerfile EXCEPT ![e] = r.arg]
    /\ requirements' = [requirements EXCEPT ![e] = {}]
    /\ proc' = Upd(p, [r EXCEPT !.pc = "build_check", !.mkdir = "created"])
    /\ UNCHANGED <<tag, images, container, nops>>

CreateMkdir(p) ==
    LET r == proc[p] e == r.env IN
    /\ r.pc = "create_mkdir"
    /\ IF e \in envDirs
       THEN /\ proc' = Upd(p, [r EXCEPT !.pc = "idle", !.mkdir = "exists",
                       !.out = Append(@, "Environment already exists!")])
            /\ UNCHANGED <<envDirs, dockerfile, requirements>>
       ELSE /\ envDirs' = envDirs \cup {e}
            /\ dockerfile' = [dockerfile EXCEPT ![e] = r.arg]
            /\ requirements' = [requirements EXCEPT ![e] = {}]
            /\ proc' = Upd(p, [r EXCEPT !.pc = "build_check", !.mkdir = "created"])
    /\ UNCHANGED <<tag, images, container, nops>>

\* ----------------------------------------------------------------- build

BuildCheck(p) ==
    LET r == proc[p] e == r.env IN
    /\ r.pc = "build_check"
    /\ IF e \notin envDirs
       THEN proc' = Upd(p, [r EXCEPT !.ret = "None",
                       !.pc = AfterBuild(r.op, "None"),
                       !.out = Append(@, "Environment doesn't exist!")])
       ELSE proc' = Upd(p, [r EXCEPT !.pc = "build_docker",
                       !.out = Append(@, "Building image")])
    /\ UNCHANGED <<envDirs, dockerfile, requirements, tag, images, container, nops>>

\* docker build -t pydock-<name>:latest -f dockerfile env_dir, in try/except
BuildDocker_truncates(p) ==
    LET r == proc[p] e == r.env IN
    /\ r.pc = "build_docker"
    /\ \E rc \in {0, 1} :
        /\ rc = 0 => e \in envDirs
        /\ IF rc = 0
           THEN /\ images' = Append(images, requirements[e])
                /\ tag' = [tag EXCEPT ![e] = Len(images) + 1]
           ELSE UNCHANGED <<images, tag>>
        /\ LET ret == IF Throws(BuildThrow, rc) THEN "False" ELSE "True"
               msg == IF Throws(BuildThrow, rc) THEN "Building environment failed!"
                                                ELSE "Environment built successfully!"
           IN proc' = Upd(p, [r EXCEPT !.ret = ret, !.pc = AfterBuild(r.op, ret),
                           !.log = Append(@, Call("build", rc)),
                           !.out = Append(@, msg)])
    /\ requirements' = [requirements EXCEPT ![e] = {}]
    /\ UNCHANGED <<envDirs, dockerfile, container, nops>>

BuildDocker(p) ==
    LET r == proc[p] e == r.env IN
    /\ r.pc = "build_docker"
    /\ \E rc \in {0, 1} :
        /\ rc = 0 => e \in envDirs
        /\ IF rc = 0
           THEN /\ images' = Append(images, requirements[e])
                /\ tag' = [tag EXCEPT ![e] = Len(images) + 1]
           ELSE UNCHANGED <<images, tag>>
        /\ LET ret == IF Throws(BuildThrow, rc) THEN "False" ELSE "True"
               msg == IF Throws(BuildThrow, rc) THEN "Building environment failed!"
                                                ELSE "Environment built successfully!"
           IN proc' = Upd(p, [r EXCEPT !.ret = ret, !.pc = AfterBuild(r.op, ret),
                           !.log = Append(@, Call("build", rc)),
                           !.out = Append(@, msg)])
    /\ UNCHANGED <<envDirs, dockerfile, requirements, container, nops>>

\* ---------------------------------------------------------------- delete

DeleteCheck_nocheck(p) ==
    LET r == proc[p] e == r.env IN
    /\ r.pc = "delete_check"
    /\ proc' = Upd(p, [r EXCEPT !.pc = "delete_rmtree"])
    /\ UNCHANGED <<envDirs, dockerfile, requirements, tag, images, container, nops>>

DeleteCheck(p) ==
    LET r == proc[p] e == r.env IN
    /\ r.pc = "delete_check"
    /\ IF e \notin envDirs
       THEN proc' = Upd(p, [r EXCEPT !.pc = "idle",
                       !.out = Append(@, "Environment doesn't exist!")])
       ELSE proc' = Upd(p, [r EXCEPT !.pc = "delete_rmtree"])
    /\ UNCHANGED <<envDirs, dockerfile, requirements, tag, images, container, nops>>

\* shutil.rmtree(env_dir); raises when the directory is gone
DeleteRmtree(p) ==
    LET r == proc[p] e == r.env IN
    /\ r.pc = "delete_rmtree"
    /\ IF e \in envDirs
       THEN /\ envDirs' = envDirs \ {e}
            /\ dockerfile' = [dockerfile EXCEPT ![e] = 0]
            /\ requirements' = [requirements EXCEPT ![e] = {}]
            /\ proc' = Upd(p, [r EXCEPT !.pc = "delete_rmi"])
       ELSE /\ proc' = Upd(p, [r EXCEPT !.pc = "idle", !.raised = TRUE])
            /\ UNCHANGED <<envDirs, dockerfile, requirements>>
    /\ UNCHANGED <<tag, images, container, nops>>

\* docker rmi --force pydock-<name>:latest, throw=False
DeleteRmi(p) ==
    LET r == proc[p] e == r.env IN
    /\ r.pc = "delete_rmi"
    /\ \E rc \in {0, 1} :
        /\ rc = 0 => tag[e] # NoImage
        /\ tag' = IF rc = 0 THEN [tag EXCEPT ![e] = NoImage] ELSE tag
        /\ IF Throws(DeleteRmiThrow, rc)
           THEN proc' = Upd(p, [r EXCEPT !.pc = "idle", !.raised = TRUE,
                           !.log = Append(@, Call("rmi", rc))])
           ELSE proc' = Upd(p, [r EXCEPT !.pc = "idle",
                           !.log = Append(@, Call("rmi", rc)),
                           !.out = Append(@, "Environment succesfully deleted.")])
    /\ UNCHANGED <<envDirs, dockerfile, requirements, images, container, nops>>

\* ------------------------------------------------------------------- run

RunCheck(p) ==
    LET r == proc[p] e == r.env IN
    /\ r.pc = "run_check"
    /\ IF e \notin envDirs
       THEN proc' = Upd(p, [r EXCEPT !.pc = "idle",
                       !.out = Append(@, "Environment doesn't exist!")])
       ELSE proc' = Upd(p, [r EXCEPT !.pc = "run_docker",
                       !.out = Append(@, "Creating shell")])
    /\ UNCHANGED <<envDirs, dockerfile, requirements, tag, images, container, nops>>

\* docker run --rm ... pydock-<name>:latest command, throw=False
RunDocker(p) ==
    LET r == proc[p] e == r.env IN
    /\ r.pc = "run_docker"
    /\ \E rc \in {0, 1} :
        /\ rc = 0 => tag[e] # NoImage
        /\ IF Throws(RunThrow, rc)
           THEN proc' = Upd(p, [r EXCEPT !.pc = "idle", !.raised = TRUE,
                           !.log = Append(@, Call("run", rc))])
           ELSE proc' = Upd(p, [r EXCEPT !.pc = "idle",
                           !.log = Append(@, Call("run", rc)),
                           !.out = Append(@, "Shell instance ended.")])
    /\ UNCHANGED <<envDirs, dockerfile, requirements, tag, images, container, nops>>

\* ------------------------------------------- install / update / uninstall

MutCheck_nocheck(p) ==
    LET r == proc[p] e == r.env IN
    /\ r.pc = "mut_check"
    /\ proc' = Upd(p, [r EXCEPT !.pc = "mut_run",
                    !.out = Append(@, "Installing/Updating/Uninstalling")])
    /\ UNCHANGED <<envDirs, dockerfile, requirements, tag, images, container, nops>>

MutCheck(p) ==
    LET r == proc[p] e == r.env IN
    /\ r.pc = "mut_check"
    /\ IF e \notin envDirs
       THEN proc' = Upd(p, [r EXCEPT !.pc = "idle",
                       !.out = Append(@, "Environment doesn't exist!")])
       ELSE proc' = Upd(p, [r EXCEPT !.pc = "mut_run",
                       !.out = Append(@, "Installing/Updating/Uninstalling")])
    /\ UNCHANGED <<envDirs, dockerfile, requirements, tag, images, container, nops>>

\* the try block is left for the except: branch, which prints and falls
\* through to finally:
Except_nofinally(r, cmd, rc) ==
    [r EXCEPT !.pc = "idle", !.log = Append(@, Call(cmd, rc)),
              !.out = Append(@, FailedMessage(r.op))]

Except(r, cmd, rc) ==
    [r EXCEPT !.pc = "mut_rm", !.log = Append(@, Call(cmd, rc)),
              !.out = Append(@, FailedMessage(r.op))]

\* docker run --name pydock-<env>-tmp -v requirements.txt:... pydock-<env>
\*     bash -c "pip <sub> <package> && pip freeze > ~/requirements.txt"
\* outcome "refused": the engine creates no container (name taken, image
\*     missing, engine error); "cmd_failed": the container ran and pip exited
\*     non-zero before the freeze; "ok": pip and the freeze both exited zero.
MutRun_replace(p) ==
    LET r == proc[p] e == r.env IN
    /\ r.pc = "mut_run"
    /\ \E outcome \in {"ok", "cmd_failed", "refused"} :
        LET rc == IF outcome = "ok" THEN 0 ELSE 1
            started == tag[e] # NoImage
            base == IF tag[e] # NoImage THEN images[tag[e]] ELSE {}
            pkgs == IF outcome = "ok" THEN PipCommand(r.op, base, r.arg) ELSE base
        IN
        /\ outcome # "refused" => started
        /\ outcome = "ok" => e \in envDirs
        /\ container' = IF outcome = "refused" THEN container
                        ELSE [container EXCEPT ![e] =
                                [exists |-> TRUE, pkgs |-> pkgs, owner |-> p]]
        /\ requirements' = IF outcome = "ok"
                           THEN [requirements EXCEPT ![e] = pkgs]
                           ELSE requirements
        /\ IF Throws(MutRunThrow, rc)
           THEN proc' = Upd(p, [Except(r, "run", rc) EXCEPT
                           !.collided = container[e].exists])
           ELSE proc' = Upd(p, [r EXCEPT !.pc = "mut_commit",
                           !.log = Append(@, Call("run", rc)),
                           !.out = Append(@, "Updating image")])
    /\ UNCHANGED <<envDirs, dockerfile, tag, images, nops>>

MutRun(p) ==
    LET r == proc[p] e == r.env IN
    /\ r.pc = "mut_run"
    /\ \E outcome \in {"ok", "cmd_failed", "refused"} :
        LET rc == IF outcome = "ok" THEN 0 ELSE 1
            started == tag[e] # NoImage /\ ~container[e].exists
            base == IF tag[e] # NoImage THEN images[tag[e]] ELSE {}
            pkgs == IF outcome = "ok" THEN PipCommand(r.op, base, r.arg) ELSE base
        IN
        /\ outcome # "refused" => started
        /\ outcome = "ok" => e \in envDirs
        /\ container' = IF outcome = "refused" THEN container
                        ELSE [container EXCEPT ![e] =
                                [exists |-> TRUE, pkgs |-> pkgs, owner |-> p]]
        /\ requirements' = IF outcome = "ok"
                           THEN [requirements EXCEPT ![e] = pkgs]
                           ELSE requirements
        /\ IF Throws(MutRunThrow, rc)
           THEN proc' = Upd(p, [Except(r, "run", rc) EXCEPT
                           !.collided = container[e].exists])
           ELSE proc' = Upd(p, [r EXCEPT !.pc = "mut_commit",
                           !.log = Append(@, Call("run", rc)),
                           !.out = Append(@, "Updating image")])
    /\ UNCHANGED <<envDirs, dockerfile, tag, images, nops>>

\* new_image_id = docker commit pydock-<env>-tmp ... .split(":")[1]
MutCommit(p) ==
    LET r == proc[p] e == r.env IN
    /\ r.pc = "mut_commit"
    /\ \E rc \in {0, 1} :
        /\ rc = 0 => container[e].exists
        /\ images' = IF rc = 0 THEN Append(images, container[e].pkgs) ELSE images
        /\ IF Throws(CommitThrow, rc)
           THEN proc' = Upd(p, Except(r, "commit", rc))
           ELSE proc' = Upd(p, [r EXCEPT !.pc = "mut_rmi",
                           !.log = Append(@, Call("commit", rc)),
                           !.new_image_id =
                               IF rc = 0
                               THEN ParseImageId(CommitStdout(Len(images) + 1))
                               ELSE 0])
    /\ UNCHANGED <<envDirs, dockerfile, requirements, tag, container, nops>>

\* docker rmi --force pydock-<env>:latest (throw left at its default)
MutRmi(p) ==
    LET r == proc[p] e == r.env IN
    /\ r.pc = "mut_rmi"
    /\ \E rc \in {0, 1} :
        /\ rc = 0 => tag[e] # NoImage
        /\ tag' = IF rc = 0 THEN [tag EXCEPT ![e] = NoImage] ELSE tag
        /\ IF Throws(MutRmiThrow, rc)
           THEN proc' = Upd(p, Except(r, "rmi", rc))
           ELSE proc' = Upd(p, [r EXCEPT !.pc = "mut_tag",
                           !.log = Append(@, Call("rmi", rc))])
    /\ UNCHANGED <<envDirs, dockerfile, requirements, images, container, nops>>

\* docker tag new_image_id pydock-<env>:latest
MutTag_old(p) ==
    LET r == proc[p] e == r.env IN
    /\ r.pc = "mut_tag"
    /\ \E rc \in {0, 1} :
        /\ tag' = IF rc = 0 THEN [tag EXCEPT ![e] = r.before.tag] ELSE tag
        /\ IF Throws(MutTagThrow, rc)
           THEN proc' = Upd(p, Except(r, "tag", rc))
           ELSE proc' = Upd(p, [r EXCEPT !.pc = "mut_rm",
                           !.log = Append(@, Call("tag", rc))])
    /\ UNCHANGED <<envDirs, dockerfile, requirements, images, container, nops>>

MutTag(p) ==
    LET r == proc[p] e == r.env IN
    /\ r.pc = "mut_tag"
    /\ \E rc \in {0, 1} :
        /\ rc = 0 => r.new_image_id \in 1..Len(images)
        /\ tag' = IF rc = 0 THEN [tag EXCEPT ![e] = r.new_image_id] ELSE tag
        /\ IF Throws(MutTagThrow, rc)
           THEN proc' = Upd(p, Except(r, "tag", rc))
           ELSE proc' = Upd(p, [r EXCEPT !.pc = "mut_rm",
                           !.log = Append(@, Call("tag", rc))])
    /\ UNCHANGED <<envDirs, dockerfile, requirements, images, container, nops>>

\* finally: docker rm --force pydock-<env>-tmp, throw=False
MutRm(p) ==
    LET r == proc[p] e == r.env IN
    /\ r.pc = "mut_rm"
    /\ \E rc \in {0, 1} :
        /\ container' = IF rc = 0 THEN [container EXCEPT ![e] = NoContainer]
                        ELSE container
        /\ IF Throws(MutRmThrow, rc)
           THEN proc' = Upd(p, [r EXCEPT !.pc = "idle", !.raised = TRUE,
                           !.log = Append(@, Call("rm", rc))])
           ELSE proc' = Upd(p, [r EXCEPT !.pc = "idle",
                           !.log = Append(@, Call("rm", rc))])
    /\ UNCHANGED <<envDirs, dockerfile, requirements, tag, images, nops>>

\* the tool's process is terminated (not a Python exception: neither the
\* except: branch nor the finally: block runs) after its transaction has
\* launched the transient container; whatever exists in the engine stays
Kill(p) ==
    LET r == proc[p] IN
    /\ r.op \in Mutations
    /\ r.pc \in {"mut_commit", "mut_rmi", "mut_tag", "mut_rm"}
    /\ proc' = Upd(p, [r EXCEPT !.pc = "idle", !.killed = TRUE])
    /\ UNCHANGED <<envDirs, dockerfile, requirements, tag, images, container, nops>>

\* docker() called on its own: any subcommand, either value of docker.sudo
\* and of throw, any exit code of the engine process
DockerCall(p, sub, sudo, throw, rc) ==
    /\ proc[p].op \in {"none", "docker"}
    /\ proc' = Upd(p, [IdleProc EXCEPT !.op = "docker",
                    !.call = Docker(<<sub>>, sudo, throw, rc)])
    /\ UNCHANGED <<envDirs, dockerfile, requirements, tag, images, container, nops>>

\* -------------------------------------------------------- specifications

Arg(op) == IF op = "create" THEN Versions
           ELSE IF op \in Mutations THEN Pkgs ELSE {0}

Step(p) ==
    \/ CreateMkdir(p)
    \/ BuildCheck(p)
    \/ BuildDocker(p)
    \/ DeleteCheck(p)
    \/ DeleteRmtree(p)
    \/ DeleteRmi(p)
    \/ RunCheck(p)
    \/ RunDocker(p)
    \/ MutCheck(p)
    \/ MutRun(p)
    \/ MutCommit(p)
    \/ MutRmi(p)
    \/ MutTag(p)
    \/ MutRm(p)

\* one invocation at a time, one after the other
Next ==
    \/ \E op \in CommandNames, e \in Envs : \E arg \in Arg(op) : Start(1, op, e, arg)
    \/ Step(1)

Spec == Init /\ [][Next]_vars

\* two invocations of the tool, each running main() once (one command),
\* interleaved at their steps
NextConc ==
    \E p \in Procs :
        \/ /\ proc[p].op = "none"
           /\ \E op \in CommandNames, e \in Envs : \E arg \in Arg(op) : Start(p, op, e, arg)
        \/ Step(p)

SpecConc == InitConc /\ [][NextConc]_vars

\* one invocation at a time, where an invocation may be terminated in the
\* middle of its transaction
NextKill ==
    \/ Next
    \/ Kill(1)

SpecKill == Init /\ [][NextKill]_vars

\* the engine client alone
NextDocker ==
    \E sub \in Subcommands, sudo \in BOOLEAN, throw \in BOOLEAN, rc \in ExitCodes :
        DockerCall(1, sub, sudo, throw, rc)

SpecDocker == Init /\ [][NextDocker]_vars

TypeOK ==
    /\ envDirs \subseteq Envs
    /\ \A e \in Envs : tag[e] \in 0..Len(images)
    /\ \A p \in Procs : proc[p].op \in CommandNames \cup {"none", "docker"}
    /\ \A p \in Procs : proc[p].call.rc \in ExitCodes

\* ------------------------------------------------------------ properties

Env(p) == proc[p].env
HasCall(p, cmd) == \E i \in 1..Len(proc[p].log) : proc[p].log[i].cmd = cmd
CallFailed(p, cmd) == \E i \in 1..Len(proc[p].log) : proc[p].log[i] = Call(cmd, 1)
CallOk(p, cmd) == \E i \in 1..Len(proc[p].log) : proc[p].log[i] = Call(cmd, 0)
Printed(p, line) == \E i \in 1..Len(proc[p].out) : proc[p].out[i] = line
Cmds(p) == [i \in 1..Len(proc[p].log) |-> proc[p].log[i].cmd]

\* a transaction of p has returned after passing its directory test
TxnReturned(p) ==
    Returned(p) /\ proc[p].op \in Mutations /\ HasCall(p, "run")
\* ... and one of its steps 1-4 exited non-zero
TxnFailed(p) ==
    CallFailed(p, "run") \/ CallFailed(p, "commit")
        \/ CallFailed(p, "rmi") \/ CallFailed(p, "tag")
\* the current commands of p and q ran during each other, and no other
\* command ran during either of them
Overlapped(p, q) ==
    /\ q \in proc[p].overlap /\ p \in proc[q].overlap
    /\ proc[p].peers = 1 /\ proc[q].peers = 1

\* C1: when create(name, version) returns for a name that was Absent before
\* the call and its build failed, the definition directory is gone again;
\* and whenever such a create returns with the directory present, the stable
\* tag is present too (never Defined-but-unbuilt).
C1_CreateAllOrNothing ==
    \A p \in Procs :
        (Returned(p) /\ proc[p].op = "create" /\ ~proc[p].before.dir) =>
            /\ CallFailed(p, "build") => Env(p) \notin envDirs
            /\ Env(p) \in envDirs => (tag[Env(p)] # NoImage /\ CallOk(p, "build"))

C1_Witness ==
    \E p \in Procs :
        /\ Returned(p) /\ proc[p].op = "create" /\ ~proc[p].before.dir
        /\ CallFailed(p, "build")
        /\ Cmds(p) = <<"build", "rmi">>
        /\ Env(p) \notin envDirs

\* C2: for a transaction on a Built environment that has returned: if every
\* engine call exited zero, the stable tag is present and its content id
\* differs from the one before; if the container run exited non-zero, the tag
\* is the same content id as before and no commit, rmi or tag call was issued.
C2_TagAdvancesOrStays ==
    \A p \in Procs :
        (TxnReturned(p) /\ proc[p].before.tag # NoImage) =>
            /\ (HasCall(p, "tag") /\ \A i \in 1..Len(proc[p].log) : proc[p].log[i].rc = 0)
                  => (tag[Env(p)] # NoImage /\ tag[Env(p)] # proc[p].before.tag)
            /\ CallFailed(p, "run")
                  => /\ tag[Env(p)] = proc[p].before.tag
                     /\ ~HasCall(p, "commit") /\ ~HasCall(p, "rmi") /\ ~HasCall(p, "tag")

C2_Witness ==
    \E p \in Procs :
        /\ TxnReturned(p) /\ proc[p].before.tag # NoImage
        /\ proc[p].log = <<Call("run", 0), Call("commit", 0), Call("rmi", 0),
                           Call("tag", 0), Call("rm", 0)>>
        /\ tag[Env(p)] = proc[p].new_image_id
        /\ tag[Env(p)] # proc[p].before.tag

\* C3 (as stated): once a transaction has returned, no container named
\* pydock-<env>-tmp exists, whatever happened in steps 1-4.
C3_NoContainerAfterTxn ==
    \A p \in Procs : TxnReturned(p) => ~container[Env(p)].exists

\* C3 (amended): every transaction that passed its directory test ends with
\* exactly one forced removal of the transient container, issued last, and if
\* that removal exited zero no such container exists once it has returned.
C3_CleanupIssuedAndEffective ==
    \A p \in Procs :
        TxnReturned(p) =>
            /\ proc[p].log[Len(proc[p].log)].cmd = "rm"
            /\ CallOk(p, "rm") => ~container[Env(p)].exists

C3_Witness ==
    \E p \in Procs :
        /\ TxnReturned(p)
        /\ TxnFailed(p)
        /\ CallOk(p, "rm")
        /\ proc[p].before.container
        /\ ~container[Env(p)].exists

\* C4: a transaction that failed at one of steps 1-4 leaves the stable tag at
\* the image it pointed at before, and after any transaction the tag is not
\* missing.
C4_TagAtomic ==
    \A p \in Procs :
        (TxnReturned(p) /\ proc[p].before.tag # NoImage) =>
            /\ TxnFailed(p) => tag[Env(p)] = proc[p].before.tag
            /\ tag[Env(p)] # NoImage

\* C5: when the removal of the previous tag (step 3) exits non-zero, the
\* transaction is not aborted: the retag of step 4 is still issued.
C5_RmiBestEffort ==
    \A p \in Procs :
        (TxnReturned(p) /\ CallFailed(p, "rmi")) =>
            /\ HasCall(p, "tag")
            /\ ~Printed(p, FailedMessage(proc[p].op)) \/ CallFailed(p, "tag")

\* C6: after create, build, install, update or uninstall has returned, a
\* present stable tag points at an image whose package set is the one in the
\* environment's manifest file.
C6_TagMatchesManifest ==
    \A p \in Procs :
        (Returned(p) /\ proc[p].op \in {"create", "build"} \cup Mutations) =>
            \A e \in envDirs :
                tag[e] # NoImage => images[tag[e]] = requirements[e]

\* C7: after a transaction that ended in failure at any step, the manifest
\* equals its content before the transaction.
C7_ManifestUnchangedOnFailure ==
    \A p \in Procs :
        (TxnReturned(p) /\ TxnFailed(p)) =>
            requirements[Env(p)] = proc[p].before.requirements

\* C8: delete on an Absent environment reports that the environment does not
\* exist, issues no engine call, and leaves directory set, tag and transient
\* container as they were.
C8_DeleteAbsentNoOp ==
    \A p \in Procs :
        (Returned(p) /\ proc[p].op = "delete" /\ ~proc[p].before.dir) =>
            /\ proc[p].out = <<"Environment doesn't exist!">>
            /\ proc[p].log = <<>>
            /\ ~proc[p].raised
            /\ Snapshot(Env(p)) = proc[p].before

C8_Witness ==
    \E p \in Procs :
        /\ Returned(p) /\ proc[p].op = "delete" /\ ~proc[p].before.dir
        /\ proc[p].before.tag # NoImage
        /\ tag[Env(p)] = proc[p].before.tag
        /\ proc[p].log = <<>>

\* C9: delete on a Defined or Built environment issues the image removal only
\* after the directory is gone, and returns without raising with the
\* environment Absent, also when the image removal exited non-zero.
C9_DeleteDirFirst ==
    \A p \in Procs :
        /\ proc[p].pc = "delete_rmi" =>
              (Env(p) \notin envDirs /\ ~HasCall(p, "rmi"))
        /\ (Returned(p) /\ proc[p].op = "delete" /\ proc[p].before.dir) =>
              /\ Env(p) \notin envDirs
              /\ Cmds(p) = <<"rmi">>
              /\ ~proc[p].raised
              /\ Printed(p, "Environment succesfully deleted.")

C9_Witness ==
    \E p \in Procs :
        /\ Returned(p) /\ proc[p].op = "delete" /\ proc[p].before.dir
        /\ proc[p].before.tag # NoImage
        /\ proc[p].log = <<Call("rmi", 1)>>
        /\ tag[Env(p)] = proc[p].before.tag
        /\ Env(p) \notin envDirs

\* a create whose mkdir finds the directory present prints AlreadyExists,
\* returns, has issued no engine call, and that step changes neither the
\* definition files nor the engine
CreateRefusedStep ==
    \A p \in Procs :
        (proc[p].pc = "create_mkdir" /\ proc'[p].pc = "idle") =>
            /\ proc'[p].out = <<"Environment already exists!">>
            /\ proc'[p].log = <<>>
            /\ UNCHANGED <<envDirs, dockerfile, requirements, tag, images, container>>

\* two creates of the same name that ran during each other, the name Absent
\* when at least one of them started
InterleavedCreates(p, q) ==
    /\ p # q /\ Overlapped(p, q)
    /\ proc[p].op = "create" /\ proc[q].op = "create"
    /\ Env(p) = Env(q)
    /\ ~proc[p].before.dir \/ ~proc[q].before.dir

\* C10 (as stated): a refused create changes nothing and builds nothing, and
\* of two interleaved creates of one name exactly one writes the definition
\* and builds while the other reports AlreadyExists.
C10_ExactlyOneCreates ==
    /\ [][CreateRefusedStep]_vars
    /\ [](\A p, q \in Procs :
            (InterleavedCreates(p, q) /\ Returned(p) /\ Returned(q)) =>
                \/ proc[p].mkdir = "created" /\ proc[q].mkdir = "exists"
                \/ proc[q].mkdir = "created" /\ proc[p].mkdir = "exists")

\* C10 (amended): a refused create changes nothing and builds nothing; of two
\* interleaved creates of one name, both get past the directory creation only
\* if one of them had its build fail and has already removed the directory
\* again in its rollback; otherwise the later one is refused.
C10_OneCreatesUnlessRollback ==
    /\ [][CreateRefusedStep]_vars
    /\ [](\A p, q \in Procs :
            (InterleavedCreates(p, q) /\ proc[p].mkdir = "created"
                                      /\ proc[q].mkdir = "created") =>
                \E w \in {p, q} :
                    /\ CallFailed(w, "build")
                    /\ proc[w].pc \in {"delete_rmi", "idle"})

C10_Witness ==
    \E p, q \in Procs :
        /\ InterleavedCreates(p, q) /\ Returned(p) /\ Returned(q)
        /\ proc[p].mkdir = "created" /\ CallOk(p, "build")
        /\ proc[q].mkdir = "exists"
        /\ proc[q].out = <<"Environment already exists!">>
        /\ proc[q].log = <<>>
        /\ proc[q].arg # proc[p].arg
        /\ dockerfile[Env(p)] = proc[p].arg


\* the last line printed by p's command
LastLine(p) == proc[p].out[Len(proc[p].out)]

\* lines that announce a step, as opposed to reporting an outcome
ProgressLines ==
    {"Building image", "Creating shell", "Installing/Updating/Uninstalling",
     "Updating image"}

\* lines that report a failure
FailureLines ==
    {"Environment already exists!", "Environment doesn't exist!",
     "Building environment failed!", "Install command failed!",
     "Update command failed!", "Delete command failed!"}

\* C11: no command lets a non-zero exit of an engine call escape as an
\* exception: every command returns without raising; build returns True when
\* its engine call exited zero and False (with the failure printed) when it
\* did not; a transaction with a failed step 1-4 prints its failure line.
C11_NoEngineFailureEscapes ==
    \A p \in Procs :
        /\ ~proc[p].raised
        /\ (Returned(p) /\ proc[p].op \in {"build", "create"}) =>
              /\ proc[p].ret \in {"True", "False", "None"}
              /\ CallOk(p, "build") => proc[p].ret = "True"
              /\ CallFailed(p, "build") =>
                    (proc[p].ret = "False" /\ Printed(p, "Building environment failed!"))
        /\ (TxnReturned(p) /\ TxnFailed(p)) => Printed(p, FailedMessage(proc[p].op))

C11_Witness ==
    \E p \in Procs :
        /\ TxnReturned(p)
        /\ CallFailed(p, "commit")
        /\ CallFailed(p, "rm")
        /\ container[Env(p)].exists
        /\ ~proc[p].raised

\* C12: with every engine call exiting zero: create of an Absent name leaves
\* the environment Built with an empty manifest; install (update) of a
\* package leaves the package in the manifest and the stable tag at a content
\* id that did not exist before; uninstall leaves the package out of the
\* manifest and the tag again at a content id that did not exist before;
\* delete leaves the name without a directory.
AllCallsOk(p) == \A i \in 1..Len(proc[p].log) : proc[p].log[i].rc = 0

C12_LifecycleScenario ==
    \A p \in Procs :
        (Returned(p) /\ AllCallsOk(p)) =>
            LET e == Env(p) b == proc[p].before IN
            /\ (proc[p].op = "create" /\ ~b.dir) =>
                  /\ e \in envDirs /\ tag[e] # NoImage
                  /\ requirements[e] = {}
                  /\ images[tag[e]] = {}
            /\ (proc[p].op \in Mutations /\ HasCall(p, "tag")) =>
                  /\ tag[e] = Len(images) /\ tag[e] > b.tag
                  /\ images[tag[e]] = requirements[e]
                  /\ proc[p].op \in {"install", "update"} =>
                        proc[p].arg \in requirements[e]
                  /\ proc[p].op = "uninstall" =>
                        proc[p].arg \notin requirements[e]
            /\ (proc[p].op = "delete" /\ b.dir) =>
                  (e \notin envDirs /\ tag[e] = NoImage)

C12_Witness ==
    \E p \in Procs :
        /\ Returned(p) /\ AllCallsOk(p) /\ proc[p].op = "uninstall"
        /\ HasCall(p, "tag")
        /\ nops = 3
        /\ images = <<{}, {proc[p].arg}, {}>>
        /\ proc[p].before.tag = 2
        /\ proc[p].before.requirements = {proc[p].arg}
        /\ tag[Env(p)] = 3
        /\ requirements[Env(p)] = {}

\* C13: while a build command runs, no step changes the directory set, the
\* build recipe, the manifest or the tag of another name; after it has
\* returned, successful or not, the definition is what it was before.
BuildStepFrame ==
    \A p \in Procs :
        (proc[p].op = "build" /\ Running(p)) =>
            /\ UNCHANGED <<envDirs, dockerfile, requirements, container>>
            /\ \A e \in Envs \ {Env(p)} : tag'[e] = tag[e]

C13_BuildKeepsDefinition ==
    /\ [][BuildStepFrame]_vars
    /\ [](\A p \in Procs :
            (Returned(p) /\ proc[p].op = "build") =>
                /\ (Env(p) \in envDirs) = proc[p].before.dir
                /\ dockerfile[Env(p)] = proc[p].before.dockerfile
                /\ requirements[Env(p)] = proc[p].before.requirements)

C13_Witness ==
    \E p \in Procs :
        /\ Returned(p) /\ proc[p].op = "build" /\ CallOk(p, "build")
        /\ proc[p].before.dir
        /\ proc[p].before.requirements # {}
        /\ proc[p].before.tag # NoImage
        /\ tag[Env(p)] # proc[p].before.tag
        /\ requirements[Env(p)] = proc[p].before.requirements

\* C14: every command that has returned printed, as its last line, a line
\* that reports its outcome (not a progress line), and a failure line exactly
\* when the command failed.
C14_TerminalStatusLine ==
    \A p \in Procs :
        Returned(p) =>
            /\ Len(proc[p].out) > 0
            /\ LastLine(p) \notin ProgressLines
            /\ (proc[p].op \in Mutations /\ HasCall(p, "run")) =>
                  (TxnFailed(p) <=> LastLine(p) \in FailureLines)
            /\ proc[p].op = "build" =>
                  (CallOk(p, "build") <=> LastLine(p) \notin FailureLines)

\* C15: run leaves directory, recipe, manifest, stable tag and transient
\* container as they were and does not raise; on an environment that is not
\* Built (no directory, or no image under the stable tag) its last printed
\* line reports a failure.
C15_RunFrameAndReport ==
    \A p \in Procs :
        (Returned(p) /\ proc[p].op = "run") =>
            /\ Snapshot(Env(p)) = proc[p].before
            /\ ~proc[p].raised
            /\ (~proc[p].before.dir \/ proc[p].before.tag = NoImage) =>
                  LastLine(p) \in FailureLines


\* two transactions on the same Built environment that ran during each other
InterleavedTxns(p, q) ==
    /\ p # q /\ Overlapped(p, q)
    /\ proc[p].op \in Mutations /\ proc[q].op \in Mutations
    /\ Env(p) = Env(q)
    /\ proc[p].before.dir /\ proc[q].before.dir
    /\ proc[p].before.tag # NoImage /\ proc[q].before.tag # NoImage

\* C16 (as stated): of two interleaved transactions on one environment the
\* one that issues its docker run second collides, so the two runs never
\* both succeed.
C16_SecondRunCollides ==
    \A p, q \in Procs :
        (InterleavedTxns(p, q) /\ HasCall(p, "run") /\ HasCall(q, "run")) =>
            ~(CallOk(p, "run") /\ CallOk(q, "run"))

\* a docker run issued while pydock-<env>-tmp exists exits non-zero, leaves
\* that container as it is and sends the transaction to its except branch
RunCollisionStep ==
    \A p \in Procs :
        (proc[p].pc = "mut_run" /\ proc'[p].pc # "mut_run"
                                /\ container[Env(p)].exists) =>
            /\ container' = container
            /\ requirements' = requirements
            /\ proc'[p].pc = "mut_rm"
            /\ proc'[p].log = <<Call("run", 1)>>
            /\ proc'[p].out[Len(proc'[p].out)] = FailedMessage(proc[p].op)

\* C16 (amended): there is one container name per environment, and a
\* transaction whose docker run is issued while the other invocation's
\* transient container still exists collides: no second container is
\* created and it ends as a failed transaction without commit or retag.  (A
\* run issued after the other transaction removed its container succeeds.)
C16_RunCollidesWhileContainerExists ==
    /\ [][RunCollisionStep]_vars
    /\ [](\A p \in Procs :
            proc[p].collided =>
                /\ CallFailed(p, "run")
                /\ ~HasCall(p, "commit") /\ ~HasCall(p, "tag")
                /\ Printed(p, FailedMessage(proc[p].op)))

C16_Witness ==
    \E p, q \in Procs :
        /\ InterleavedTxns(p, q)
        /\ proc[p].pc = "mut_commit" /\ CallOk(p, "run")
        /\ Returned(q) /\ proc[q].collided
        /\ Cmds(q) = <<"run", "rm">>
        /\ tag[Env(q)] = proc[q].before.tag


\* every engine call of p's command exited zero, except a docker run that
\* found the container name taken
OtherwiseOk(p) ==
    \A i \in 1..Len(proc[p].log) :
        \/ proc[p].log[i].rc = 0
        \/ proc[p].log[i].cmd = "run" /\ proc[p].collided

TxnOrder == <<"run", "commit", "rmi", "tag">>

C18_EngineCallOrder ==
    \A p \in Procs :
        proc[p].op \in Mutations =>
            LET log == proc[p].log
                n == Len(log)
                m == IF n > 0 /\ log[n].cmd = "rm" THEN n - 1 ELSE n
            IN
            /\ m <= 4
            /\ \A i \in 1..m : log[i].cmd = TxnOrder[i]
            /\ \A i \in 2..m : log[i - 1].rc = 0
            /\ HasCall(p, "tag") => proc[p].new_image_id \in 1..Len(images)
            /\ (proc[p].pc # "idle") => m = n
            /\ TxnReturned(p) => (m = n - 1 /\ m >= 1)

C18_Witness ==
    \E p \in Procs :
        /\ TxnReturned(p)
        /\ Cmds(p) = <<"run", "commit", "rmi", "tag", "rm">>
        /\ CallFailed(p, "tag")
        /\ CallOk(p, "commit")


\* C19: docker(..., throw=True) raises exactly when the exit code is
\* non-zero; docker(..., throw=False) never raises and returns the result
\* with that exit code; the command line starts with the privilege prefix
\* exactly when docker.sudo is true, and is otherwise "docker" followed by
\* the given command.
C19_ExitCodeAlone ==
    \A p \in Procs :
        proc[p].op = "docker" =>
            LET c == proc[p].call IN
            /\ c.throw => (c.raised <=> c.rc # 0)
            /\ ~c.throw => (~c.raised /\ c.result = c.rc)
            /\ ~c.raised => c.result = c.rc
            /\ (c.argv[1] = "sudo") <=> c.sudo
            /\ c.sudo => SubSeq(c.argv, 2, Len(c.argv)) = <<"docker">> \o c.command
            /\ ~c.sudo => c.argv = <<"docker">> \o c.command

C19_Witness ==
    \E p \in Procs :
        /\ proc[p].op = "docker"
        /\ proc[p].call.throw /\ proc[p].call.rc = 2 /\ proc[p].call.raised
        /\ proc[p].call.sudo
        /\ proc[p].call.argv = <<"sudo", "docker", "commit">>


\* C20: install, update and uninstall on an environment without a definition
\* directory print "Environment doesn't exist!" and nothing else, issue no
\* engine call (no run, commit, rmi, tag or rm), and leave the directory, the
\* definition files, the tag and any leftover container as they were.
C20_AbsentMutationNoOp ==
    \A p \in Procs :
        (Returned(p) /\ proc[p].op \in Mutations /\ ~proc[p].before.dir) =>
            /\ proc[p].out = <<"Environment doesn't exist!">>
            /\ proc[p].log = <<>>
            /\ ~proc[p].raised
            /\ Snapshot(Env(p)) = proc[p].before

C20_Witness ==
    \E p \in Procs :
        /\ Returned(p) /\ proc[p].op \in Mutations /\ ~proc[p].before.dir
        /\ proc[p].before.tag # NoImage
        /\ proc[p].before.container
        /\ proc[p].out = <<"Environment doesn't exist!">>


\* C21: the cleanup step removes only the transient container its own
\* transaction launched: while a transaction stands between its successful
\* step 1 and its commit, the transient container of its environment exists
\* and is the one it launched, whatever another invocation on the same
\* environment does (an invocation refused at container creation included).
C21_CleanupOnlyOwnContainer ==
    \A p \in Procs :
        (proc[p].op \in Mutations /\ proc[p].pc = "mut_commit") =>
            /\ container[Env(p)].exists
            /\ container[Env(p)].owner = p

\* C22: when no operation is in progress, every environment with a
\* definition directory has its stable tag in the engine.
C22_DefinedImpliesBuilt ==
    (\A p \in Procs : ~Running(p)) =>
        \A e \in envDirs : tag[e] # NoImage

====
